---- MODULE Spec2Model ----
(***************************************************************************)
(* SerpProClient (src/moab-apis.py): one blocking API call at a time.      *)
(* A call binds the caller's arguments, builds and validates a request     *)
(* record, and runs _make_request: a loop of HTTP attempts that ends on    *)
(* the first attempt whose outcome is not a timeout.                       *)
(***************************************************************************)
EXTENDS Integers, Sequences, FiniteSets, TLC

VARIABLES client, call, request, attempts, timeouts, last, pc, result

vars == <<client, call, request, attempts, timeouts, last, pc, result>>

(***************************************************************************)
(* Bounds of the model.                                                    *)
(***************************************************************************)
\* Timed-out attempts explored per call (the code has no such limit).
MaxTimeouts == 3
\* Longest JSON array body explored.
MaxArrayLen == 2

(***************************************************************************)
(* Program constants.                                                      *)
(***************************************************************************)
HTTP_OK == 200
HTTP_UNPROCESSABLE == 422
RequestTimeout == 300
MinQueryLen == 1
MaxQueryLen == 3000
NoResponseStatus == 0

(***************************************************************************)
(* Values.  A Python / JSON value is a record [t, s, n, l]:                *)
(*   null (None), str (the text s repeated n times), int (n),              *)
(*   list (the list of strings l).                                         *)
(***************************************************************************)
JNull == [t |-> "null", s |-> "", n |-> 0, l |-> <<>>]
JRep(text, k) == [t |-> "str", s |-> text, n |-> k, l |-> <<>>]
JStr(text) == JRep(text, 1)
JInt(k) == [t |-> "int", s |-> "", n |-> k, l |-> <<>>]
JList(items) == [t |-> "list", s |-> "", n |-> 0, l |-> items]

StrLen(v) == Len(v.s) * v.n

\* Python truthiness of a value: None, "", 0 and [] are falsy.
Truthy(v) ==
    CASE v.t = "null" -> FALSE
      [] v.t = "str" -> StrLen(v) > 0
      [] v.t = "int" -> v.n # 0
      [] v.t = "list" -> Len(v.l) > 0

\* Optional values: None is <<>>, a value x is <<x>>.
None == <<>>
Some(x) == <<x>>

\* A dict restricted to some of its keys.
Restrict(d, keys) == [k \in keys |-> d[k]]
EmptyDict == [k \in {} |-> JNull]

(***************************************************************************)
(* Enumerations (the wire strings).                                        *)
(***************************************************************************)
ServiceType == {"WordstatFrequency", "WordstatDirectFrequency", "WordstatDeep",
                "WordstatDirectDeep", "WordstatHistory", "YandexSerpPosition",
                "GoogleSerpPosition", "YandexIndexation", "GoogleIndexation",
                "YandexSerpUrls", "GoogleSerpUrls"}
WordstatDevice == {"All", "Desktop", "Phone", "Tablet"}
WordstatSyntax == {"None", "Ws", "Quotes", "QuotesExclamationMark",
                   "QuotesSquareBrackets", "QuotesExclamationMarkSquareBrackets"}
WordstatTaskType == {"Regular", "Direct"}
WordstatGrouping == {"Day", "Week", "Month"}
SearchSystem == {"Yandex", "Google"}
RegionSearchType == {"Name", "Code"}

(***************************************************************************)
(* pydantic models.  A field is [type, optional, enum, min, max, default]; *)
(* default is None (<<>>) for a required field.                            *)
(***************************************************************************)
NoLimit == <<>>

OptStr == [type |-> "str", optional |-> TRUE, enum |-> {}, min |-> NoLimit,
           max |-> NoLimit, default |-> Some(JNull)]
OptInt == [type |-> "int", optional |-> TRUE, enum |-> {}, min |-> NoLimit,
           max |-> NoLimit, default |-> Some(JNull)]
IntDefault(k) == [type |-> "int", optional |-> FALSE, enum |-> {}, min |-> NoLimit,
                  max |-> NoLimit, default |-> Some(JInt(k))]
OptStrList == [type |-> "strlist", optional |-> TRUE, enum |-> {}, min |-> NoLimit,
               max |-> NoLimit, default |-> Some(JNull)]
OptModelList == [type |-> "modellist", optional |-> TRUE, enum |-> {}, min |-> NoLimit,
                 max |-> NoLimit, default |-> Some(JNull)]
EnumDefault(values, dflt) == [type |-> "enum", optional |-> FALSE, enum |-> values,
                              min |-> NoLimit, max |-> NoLimit,
                              default |-> Some(JStr(dflt))]
OptEnum(values) == [type |-> "enum", optional |-> TRUE, enum |-> values,
                    min |-> NoLimit, max |-> NoLimit, default |-> Some(JNull)]
RequiredStr(lo, hi) == [type |-> "str", optional |-> FALSE, enum |-> {},
                        min |-> Some(lo), max |-> Some(hi), default |-> None]

FrequencyRequest ==
    [query |-> OptStr, region |-> OptStr,
     device |-> EnumDefault(WordstatDevice, "All"),
     task_type |-> EnumDefault(WordstatTaskType, "Regular"),
     syntax |-> EnumDefault(WordstatSyntax, "Ws")]

DeepRequest ==
    [query |-> OptStr, region |-> OptStr,
     device |-> EnumDefault(WordstatDevice, "All"),
     task_type |-> EnumDefault(WordstatTaskType, "Regular")]

\* Mutant: max_length taken as an exclusive limit.
HistoryRequestExclusiveMax ==
    [query |-> RequiredStr(MinQueryLen, MaxQueryLen - 1), region |-> OptStr,
     device |-> EnumDefault(WordstatDevice, "All"),
     grouping |-> EnumDefault(WordstatGrouping, "Month"),
     start_date |-> OptStr, end_date |-> OptStr]

HistoryRequest ==
    [query |-> RequiredStr(MinQueryLen, MaxQueryLen), region |-> OptStr,
     device |-> EnumDefault(WordstatDevice, "All"),
     grouping |-> EnumDefault(WordstatGrouping, "Month"),
     start_date |-> OptStr, end_date |-> OptStr]

FinanceStatsRequest ==
    [service_type |-> OptEnum(ServiceType), start_date |-> OptStr, end_date |-> OptStr]

FrequencyResponse == [frequency |-> OptInt]
DeepResponse == [associations |-> OptModelList, popular |-> OptModelList]
HistoryResponse == [items |-> OptModelList]
RegionResponse == [name |-> OptStr, code |-> OptStr]
FinanceStatsResponse == [request_count |-> IntDefault(0)]
GlobalErrorModel ==
    [id |-> OptStr, error_message |-> OptStr, instance |-> OptStr,
     invalid_data |-> OptStrList]

\* pydantic's check of one value against one field.  The str inputs of the
\* model are not numeric, so none converts to an int; a list input holds
\* strings, so it is a list of models only when it is empty.
Accepts(f, v) ==
    IF v.t = "null" THEN f.optional
    ELSE CASE f.type = "str" ->
                /\ v.t = "str"
                /\ (f.min # NoLimit => StrLen(v) >= f.min[1])
                /\ (f.max # NoLimit => StrLen(v) <= f.max[1])
           [] f.type = "int" -> v.t = "int"
           [] f.type = "strlist" -> v.t = "list"
           [] f.type = "modellist" -> v.t = "list" /\ Len(v.l) = 0
           [] f.type = "enum" -> v.t = "str" /\ v.n = 1 /\ v.s \in f.enum

\* Model(**data) succeeds: every required field is given and every given
\* field of the model validates (other keys are ignored).
Validates(model, data) ==
    \A k \in DOMAIN model :
        IF k \in DOMAIN data THEN Accepts(model[k], data[k])
        ELSE model[k].default # None

\* The record Model(**data) builds: given fields, defaults for the others.
Construct(model, data) ==
    [k \in DOMAIN model |->
        IF k \in DOMAIN data THEN data[k] ELSE model[k].default[1]]

\* Mutant: record.model_dump(), which keeps the fields that are None.
model_dump_all(record) == record

\* record.model_dump(exclude_none=True)
model_dump_exclude_none(record) ==
    Restrict(record, {k \in DOMAIN record : record[k].t # "null"})

(***************************************************************************)
(* The client.                                                             *)
(***************************************************************************)
\* A base URL as passed to the constructor: stem followed by `slashes` "/".
BaseUrls == {[stem |-> "https://moab-apis.ru", slashes |-> k] : k \in 0..1}

\* base_url.rstrip('/')
rstrip_slash(base_url) == base_url.stem

SerpProClient(api_key, base_url, verify_ssl) ==
    [api_key |-> api_key, base_url |-> rstrip_slash(base_url),
     verify_ssl |-> verify_ssl,
     headers |-> ("X-Api-Key" :> api_key) @@ ("Content-Type" :> "application/json")]

(***************************************************************************)
(* The operations: parameters with their defaults, request record,         *)
(* HTTP method, endpoint and response record.                              *)
(***************************************************************************)
Operations == {"wordstat_frequency", "wordstat_deep", "wordstat_history",
               "region_yandex", "region_google", "region_check",
               "finance_total", "finance_statistics"}

RecordOperations == {"wordstat_frequency", "wordstat_deep", "wordstat_history",
                     "finance_statistics"}
RegionOperations == {"region_yandex", "region_google", "region_check"}

RequestModel(op) ==
    CASE op = "wordstat_frequency" -> FrequencyRequest
      [] op = "wordstat_deep" -> DeepRequest
      [] op = "wordstat_history" -> HistoryRequest
      [] op = "finance_statistics" -> FinanceStatsRequest

ResponseModel(op) ==
    CASE op = "wordstat_frequency" -> FrequencyResponse
      [] op = "wordstat_deep" -> DeepResponse
      [] op = "wordstat_history" -> HistoryResponse
      [] op \in RegionOperations -> RegionResponse
      [] op \in {"finance_total", "finance_statistics"} -> FinanceStatsResponse

Endpoint(op) ==
    CASE op = "wordstat_frequency" -> "/api/v1/wordstat/frequency"
      [] op = "wordstat_deep" -> "/api/v1/wordstat/deep"
      [] op = "wordstat_history" -> "/api/v1/wordstat/history"
      [] op = "region_yandex" -> "/api/v1/region/yandex"
      [] op = "region_google" -> "/api/v1/region/google"
      [] op = "region_check" -> "/api/v1/region/check"
      [] op = "finance_total" -> "/api/v1/finance/total"
      [] op = "finance_statistics" -> "/api/v1/finance/statistics"

Method(op) == IF op \in RecordOperations THEN "POST" ELSE "GET"

\* The parameters of a method that have a default, with the default.
ParamDefaults(op) ==
    CASE op = "wordstat_frequency" ->
            [query |-> JNull, region |-> JNull, device |-> JStr("All"),
             task_type |-> JStr("Regular"), syntax |-> JStr("Ws")]
      [] op = "wordstat_deep" ->
            [query |-> JNull, region |-> JNull, device |-> JStr("All"),
             task_type |-> JStr("Regular")]
      [] op = "wordstat_history" ->
            [region |-> JNull, device |-> JStr("All"), grouping |-> JStr("Month"),
             start_date |-> JNull, end_date |-> JNull]
      [] op = "finance_total" -> [service |-> JNull]
      [] op = "finance_statistics" ->
            [service_type |-> JNull, start_date |-> JNull, end_date |-> JNull]
      [] OTHER -> EmptyDict

\* The parameters a caller must pass.
RequiredParams(op) ==
    CASE op = "wordstat_history" -> {"query"}
      [] op \in {"region_yandex", "region_google"} -> {"query"}
      [] op = "region_check" -> {"code", "search_system", "search_type"}
      [] OTHER -> {}

\* Python's binding of a call's arguments: what the caller passed, and the
\* declared default for every parameter it left out.
Bind(op, passed) ==
    [p \in RequiredParams(op) \cup DOMAIN ParamDefaults(op) |->
        IF p \in DOMAIN passed THEN passed[p] ELSE ParamDefaults(op)[p]]

\* The payload a record operation hands to _make_request.
Payload(op, passed) ==
    model_dump_exclude_none(Construct(RequestModel(op), Bind(op, passed)))

\* The query parameters a GET operation hands to _make_request.
QueryParams(op, passed) ==
    LET a == Bind(op, passed) IN
    CASE op \in {"region_yandex", "region_google"} -> [query |-> a.query]
      [] op = "region_check" ->
            [code |-> a.code, searchSystem |-> a.search_system,
             searchType |-> a.search_type]
      [] op = "finance_total" ->
            IF Truthy(a.service) THEN [service |-> a.service] ELSE EmptyDict

\* The validation the method performs before it calls _make_request.
RequestValid(op, passed) ==
    op \in RecordOperations => Validates(RequestModel(op), Bind(op, passed))

\* What _make_request sends on every attempt of the call.
BuildRequest(c, op, passed) ==
    [method |-> Method(op),
     url |-> c.base_url \o Endpoint(op),
     json |-> IF Method(op) = "POST" THEN Some(Payload(op, passed)) ELSE None,
     params |-> IF Method(op) = "POST" THEN None ELSE Some(QueryParams(op, passed)),
     verify |-> c.verify_ssl,
     timeout |-> RequestTimeout]

(***************************************************************************)
(* The transport: what one HTTP attempt can end in.                        *)
(***************************************************************************)
TimeoutExceptions == {"Timeout", "ReadTimeout", "ConnectTimeout"}

\* An exception of the transport, [cls, text]; str(e) is its text.
str(e) == e.text

TimeoutRaised(cls) == [cls |-> cls, text |-> "timed out"]

OtherRequestExceptions ==
    {[cls |-> "ConnectionError", text |-> "Name or service not known"],
     [cls |-> "ConnectionError", text |-> "Connection refused"],
     [cls |-> "SSLError", text |-> "certificate verify failed"]}

\* The texts of the non-JSON bodies explored (each a single line).
NonJsonTexts == {"Bad Gateway", "{", "123abc", "[1,"}

\* Where json.loads fails on a text that is not JSON, and with what message:
\* the empty text and a text that starts no JSON value fail at once, "{"
\* lacks a property name, "123abc" has data after the value 123, "[1,"
\* lacks the value after the comma.
JSONDecodeFailure(text) ==
    CASE text = "{" ->
            [msg |-> "Expecting property name enclosed in double quotes", pos |-> 1]
      [] text = "123abc" -> [msg |-> "Extra data", pos |-> 3]
      [] text = "[1," -> [msg |-> "Expecting value", pos |-> 3]
      [] OTHER -> [msg |-> "Expecting value", pos |-> 0]

\* str() of the JSONDecodeError response.json() raises for a one-line text
\* ("msg: line 1 column pos+1 (char pos)"); it is a
\* requests.exceptions.RequestException.
JSONDecodeText(text) ==
    LET f == JSONDecodeFailure(text)
    IN  f.msg \o ": line 1 column " \o ToString(f.pos + 1)
              \o " (char " \o ToString(f.pos) \o ")"

\* A response body: empty, text that is not JSON (nonjson), JSON null, a JSON object
\* (obj) or a JSON array (arr) of items, each an object or null.
EmptyBody == [kind |-> "empty", nonjson |-> "", obj |-> EmptyDict, arr |-> <<>>]
TextBody(text) == [kind |-> "text", nonjson |-> text, obj |-> EmptyDict, arr |-> <<>>]
NullBody == [kind |-> "null", nonjson |-> "", obj |-> EmptyDict, arr |-> <<>>]
ObjectBody(d) == [kind |-> "object", nonjson |-> "", obj |-> d, arr |-> <<>>]
ArrayBody(items) == [kind |-> "array", nonjson |-> "", obj |-> EmptyDict, arr |-> items]
ObjectItem(d) == [kind |-> "object", obj |-> d]
NullItem == [kind |-> "null", obj |-> EmptyDict]

\* All dicts that map some of the keys of `choices` to one of its values.
PartialDicts(choices) ==
    UNION {{d \in [S -> UNION {choices[k] : k \in S}] :
                \A k \in S : d[k] \in choices[k]} : S \in SUBSET DOMAIN choices}

ErrorObjects ==
    PartialDicts(
        [error_message |-> {JNull, JStr(""), JStr("Invalid region"), JInt(123)},
         invalid_data |-> {JNull, JList(<<"region">>), JStr("region")}])

DataObjects ==
    {[frequency |-> JInt(1500)], [frequency |-> JStr("many")],
     [request_count |-> JInt(7)], [request_count |-> JNull],
     [associations |-> JList(<<>>)], [items |-> JList(<<"2024-01-01">>)]}

RegionItems ==
    {ObjectItem([name |-> JStr("Moscow"), code |-> JStr("213")]),
     ObjectItem([name |-> JStr("Tver")]),
     ObjectItem([name |-> JInt(14)]),
     NullItem}

ArrayBodies ==
    {ArrayBody(items) : items \in UNION {[1..k -> RegionItems] : k \in 0..MaxArrayLen}}

Bodies ==
    {EmptyBody, NullBody} \cup {TextBody(t) : t \in NonJsonTexts}
        \cup {ObjectBody(d) : d \in ErrorObjects \cup DataObjects}
        \cup ArrayBodies

StatusCodes == {HTTP_OK, HTTP_UNPROCESSABLE, 408, 500, 504}

Responses == [status_code : StatusCodes, body : Bodies]

(***************************************************************************)
(* What the caller gets: a return value (a sequence of response records;   *)
(* one record for the operations that return a single record), a           *)
(* SerpProAPIError, or another exception.                                  *)
(***************************************************************************)
Pending == [kind |-> "pending", error |-> None, value |-> <<>>]
Return(v) == [kind |-> "return", error |-> None, value |-> v]
Raise(exc) == [kind |-> exc, error |-> None, value |-> <<>>]

SerpProAPIError(status_code, message, error_model) ==
    [kind |-> "SerpProAPIError",
     error |-> Some([status_code |-> status_code, message |-> message,
                     error_model |-> error_model]),
     value |-> <<>>]

\* dict.get(key, default)
get(d, key, default) == IF key \in DOMAIN d THEN d[key] ELSE default

(***************************************************************************)
(* _make_request: the handling of one attempt's outcome.                   *)
(***************************************************************************)
\* Mutant: the loop gives up on the third timeout of a call.
OnTimeoutGivesUp(e, n) ==
    IF n >= 3
    THEN [pc |-> "TransportError",
          result |-> SerpProAPIError(NoResponseStatus, JStr(str(e)), None)]
    ELSE [pc |-> "Sending", result |-> Pending]

\* except (Timeout, ReadTimeout, ConnectTimeout): the n-th timeout of the
\* call is logged and the loop continues.
OnTimeout(e, n) == [pc |-> "Sending", result |-> Pending]

\* Mutant: every transport exception is retried like a timeout.
OnRequestExceptionRetried(e) == [pc |-> "Sending", result |-> Pending]

\* except RequestException as e: raise SerpProAPIError(0, str(e))
OnRequestException(e) ==
    [pc |-> "TransportError",
     result |-> SerpProAPIError(NoResponseStatus, JStr(str(e)), None)]

\* response.json(): a body that is empty or not JSON raises JSONDecodeError.
JsonDecodes(body) == body.kind \notin {"empty", "text"}

\* The default message of an error response.
DefaultMessage(status_code) ==
    IF status_code = HTTP_UNPROCESSABLE
    THEN JStr("Unprocessable Content - invalid query")
    ELSE JStr("HTTP " \o ToString(status_code))

\* The branches for a status other than 200:
\*   error_data = response.json() if response.text else {}
\*   try: GlobalErrorModel(**error_data); message = model.error_message or default
\*   except: message = error_data.get('error_message', default); model = None
\*   raise SerpProAPIError(status, message, model)
OnErrorResponse(status_code, body) ==
    LET error_data == IF body.kind = "empty" THEN ObjectBody(EmptyDict) ELSE body
        default == DefaultMessage(status_code)
    IN  IF body.kind # "empty" /\ ~JsonDecodes(body)
        THEN OnRequestException(
                 [cls |-> "JSONDecodeError", text |-> JSONDecodeText(body.nonjson)])
        ELSE IF error_data.kind = "object"
                 /\ Validates(GlobalErrorModel, error_data.obj)
        THEN LET error_model == Construct(GlobalErrorModel, error_data.obj)
                 message == IF Truthy(error_model.error_message)
                            THEN error_model.error_message ELSE default
             IN  [pc |-> "RemoteError",
                  result |-> SerpProAPIError(status_code, message, Some(error_model))]
        ELSE IF error_data.kind = "object"
        THEN [pc |-> "RemoteError",
              result |-> SerpProAPIError(
                  status_code, get(error_data.obj, "error_message", default), None)]
        ELSE [pc |-> "Escaped", result |-> Raise("AttributeError")]

(***************************************************************************)
(* What the calling method makes of the decoded body of a 200 response.    *)
(***************************************************************************)
\* [RegionResponse(**item) for item in response_data], all items valid.
RegionList(items) ==
    [i \in 1..Len(items) |-> Construct(RegionResponse, items[i].obj)]

ItemFails(item) == item.kind # "object" \/ ~Validates(RegionResponse, item.obj)

\* The exception of the first item of the list that cannot be mapped.
FirstFailure(items) ==
    LET i == CHOOSE j \in 1..Len(items) :
                 ItemFails(items[j]) /\ \A k \in 1..(j - 1) : ~ItemFails(items[k])
    IN  IF items[i].kind # "object" THEN "TypeError" ELSE "ValidationError"

MapResponse(op, data) ==
    IF op \in RegionOperations
    THEN CASE data.kind = "array" ->
                 IF \E i \in 1..Len(data.arr) : ItemFails(data.arr[i])
                 THEN Raise(FirstFailure(data.arr))
                 ELSE Return(RegionList(data.arr))
           [] data.kind = "object" ->
                 IF DOMAIN data.obj = {} THEN Return(<<>>) ELSE Raise("TypeError")
           [] OTHER -> Raise("TypeError")
    ELSE IF data.kind # "object" THEN Raise("TypeError")
         ELSE IF Validates(ResponseModel(op), data.obj)
         THEN Return(<<Construct(ResponseModel(op), data.obj)>>)
         ELSE Raise("ValidationError")

\* A response: 200 returns response.json() to the method, which maps it.
OnResponse(op, r) ==
    IF r.status_code = HTTP_OK
    THEN IF JsonDecodes(r.body)
         THEN [pc |-> "Succeeded", result |-> MapResponse(op, r.body)]
         ELSE OnRequestException(
                  [cls |-> "JSONDecodeError", text |-> JSONDecodeText(r.body.nonjson)])
    ELSE OnErrorResponse(r.status_code, r.body)

(***************************************************************************)
(* The calls a caller can make.                                            *)
(***************************************************************************)
\* The values a caller passes for each parameter (None passed explicitly
\* where the parameter is Optional; "Watch" is no WordstatDevice).
ArgChoices(op) ==
    CASE op = "wordstat_frequency" ->
            [query |-> {JStr("pizza")}, region |-> {JStr("225")},
             device |-> {JStr("Desktop"), JStr("Watch")},
             task_type |-> {JStr("Direct")}, syntax |-> {JStr("Quotes")}]
      [] op = "wordstat_deep" ->
            [query |-> {JStr("pizza"), JNull}, region |-> {JStr("225")},
             device |-> {JStr("Phone")}, task_type |-> {JStr("Direct")}]
      [] op = "wordstat_history" ->
            [query |-> {JRep("a", MinQueryLen)},
             region |-> {JStr("225")}, device |-> {JStr("Tablet")},
             grouping |-> {JStr("Day")}, start_date |-> {JStr("2024-01-01")},
             end_date |-> {JStr("2024-12-31")}]
      [] op \in {"region_yandex", "region_google"} ->
            [query |-> {JStr("Moscow")}]
      [] op = "region_check" ->
            [code |-> {JStr("213")},
             search_system |-> {JStr(x) : x \in SearchSystem},
             search_type |-> {JStr(x) : x \in RegionSearchType}]
      [] op = "finance_total" -> [service |-> {JStr("WordstatDeep"), JNull}]
      [] op = "finance_statistics" ->
            [service_type |-> {JStr("WordstatHistory")},
             start_date |-> {JStr("2024-01-01"), JNull},
             end_date |-> {JStr("2024-12-31")}]

\* The query lengths a caller tries on wordstat_history.
QueryLengths ==
    {MinQueryLen - 1, MinQueryLen, MinQueryLen + 1,
     MaxQueryLen - 1, MaxQueryLen, MaxQueryLen + 1}

\* The argument lists of a call of op: all required parameters and any of
\* the others; wordstat_history also with a query of each length alone.
Calls(op) ==
    {a \in PartialDicts(ArgChoices(op)) : RequiredParams(op) \subseteq DOMAIN a}
        \cup (IF op = "wordstat_history"
               THEN {[query |-> JRep("a", k)] : k \in QueryLengths}
               ELSE {})

NoCall == [op |-> "none", passed |-> EmptyDict]
NoRequest == [method |-> "", url |-> "", json |-> None, params |-> None,
              verify |-> TRUE, timeout |-> 0]

Terminal == {"Succeeded", "RemoteError", "TransportError"}
Ended == Terminal \cup {"Escaped", "Rejected"}

\* The outcome of an attempt: an exception of the transport or a response.
NoOutcome == [exc |-> None, response |-> None]
Raised(e) == [exc |-> Some(e), response |-> None]
Received(r) == [exc |-> None, response |-> Some(r)]

Init ==
    /\ client \in {SerpProClient("your-api-key", b, v) : b \in BaseUrls, v \in BOOLEAN}
    /\ call = NoCall
    /\ request = NoRequest
    /\ attempts = <<>>
    /\ timeouts = 0
    /\ last = NoOutcome
    /\ pc = "Idle"
    /\ result = Pending

\* A method up to its call of _make_request: the request record is built
\* from the bound arguments; a validation error ends the call there.
Invoke(op, passed) ==
    /\ call' = [op |-> op, passed |-> passed]
    /\ IF RequestValid(op, passed)
       THEN /\ request' = BuildRequest(client, op, passed)
            /\ pc' = "Sending"
            /\ result' = Pending
       ELSE /\ request' = NoRequest
            /\ pc' = "Rejected"
            /\ result' = Raise("ValidationError")
    /\ UNCHANGED <<client, attempts, timeouts, last>>

wordstat_frequency ==
    /\ pc = "Idle"
    /\ \E passed \in Calls("wordstat_frequency") : Invoke("wordstat_frequency", passed)

wordstat_deep ==
    /\ pc = "Idle"
    /\ \E passed \in Calls("wordstat_deep") : Invoke("wordstat_deep", passed)

wordstat_history ==
    /\ pc = "Idle"
    /\ \E passed \in Calls("wordstat_history") : Invoke("wordstat_history", passed)

region_yandex ==
    /\ pc = "Idle"
    /\ \E passed \in Calls("region_yandex") : Invoke("region_yandex", passed)

region_google ==
    /\ pc = "Idle"
    /\ \E passed \in Calls("region_google") : Invoke("region_google", passed)

region_check ==
    /\ pc = "Idle"
    /\ \E passed \in Calls("region_check") : Invoke("region_check", passed)

finance_total ==
    /\ pc = "Idle"
    /\ \E passed \in Calls("finance_total") : Invoke("finance_total", passed)

finance_statistics ==
    /\ pc = "Idle"
    /\ \E passed \in Calls("finance_statistics") : Invoke("finance_statistics", passed)

\* One pass of the loop of _make_request: the request is sent and the
\* outcome of the attempt is handled.
Attempt(outcome, next) ==
    /\ attempts' = Append(attempts, request)
    /\ last' = outcome
    /\ pc' = next.pc
    /\ result' = next.result
    /\ UNCHANGED <<client, call, request>>

AttemptTimeout ==
    /\ pc = "Sending"
    /\ timeouts < MaxTimeouts
    /\ timeouts' = timeouts + 1
    /\ \E cls \in TimeoutExceptions :
        LET e == TimeoutRaised(cls) IN Attempt(Raised(e), OnTimeout(e, timeouts + 1))

AttemptRequestException ==
    /\ pc = "Sending"
    /\ timeouts' = timeouts
    /\ \E e \in OtherRequestExceptions : Attempt(Raised(e), OnRequestException(e))

AttemptResponse ==
    /\ pc = "Sending"
    /\ timeouts' = timeouts
    /\ \E r \in Responses : Attempt(Received(r), OnResponse(call.op, r))

\* The caller has the outcome of the call; the client is ready for the next.
Finish ==
    /\ pc \in Ended
    /\ pc' = "Idle"
    /\ call' = NoCall
    /\ request' = NoRequest
    /\ attempts' = <<>>
    /\ timeouts' = 0
    /\ last' = NoOutcome
    /\ result' = Pending
    /\ UNCHANGED client

Next ==
    \/ wordstat_frequency
    \/ wordstat_deep
    \/ wordstat_history
    \/ region_yandex
    \/ region_google
    \/ region_check
    \/ finance_total
    \/ finance_statistics
    \/ AttemptTimeout
    \/ AttemptRequestException
    \/ AttemptResponse
    \/ Finish

Spec == Init /\ [][Next]_vars

(***************************************************************************)
(* Properties.                                                             *)
(***************************************************************************)
LastTimedOut == last.exc # None /\ last.exc[1].cls \in TimeoutExceptions
LastFailed == last.exc # None /\ last.exc[1].cls \notin TimeoutExceptions
LastResponded == last.response # None
RaisedAPIError == result.kind = "SerpProAPIError"

\* C1: a timed-out attempt never ends the call and is never surfaced: the
\* call stays in the loop with nothing raised; while the call is in the
\* loop every attempt so far has timed out; when the call has ended, it
\* ended on the first attempt that did not time out, after n timeouts and
\* exactly n + 1 attempts; all attempts carry the same request.
C1_TimeoutsAreRetried ==
    /\ LastTimedOut => pc = "Sending" /\ result = Pending
    /\ pc = "Sending" => Len(attempts) = timeouts
    /\ pc \in Terminal \cup {"Escaped"} =>
          /\ Len(attempts) = timeouts + 1
          /\ ~LastTimedOut
          /\ result # Pending
    /\ \A i \in 1..Len(attempts) :
          /\ attempts[i].method = Method(call.op)
          /\ attempts[i].url = client.base_url \o Endpoint(call.op)
          /\ attempts[i] = attempts[1]

C1_Witness ==
    /\ pc = "RemoteError"
    /\ timeouts >= 2
    /\ Len(attempts) = timeouts + 1

\* C2: an attempt that ends in a transport exception other than a timeout
\* ends the call on that attempt with SerpProAPIError(0, text of the
\* exception, no error model); it is the last attempt of the call.
C2_TransportErrorIsImmediate ==
    LastFailed =>
        /\ pc = "TransportError"
        /\ RaisedAPIError
        /\ result.error[1].status_code = 0
        /\ result.error[1].message = JStr(last.exc[1].text)
        /\ result.error[1].error_model = None
        /\ Len(attempts) = timeouts + 1

C2_Witness ==
    /\ LastFailed
    /\ last.exc[1].text = "Name or service not known"
    /\ timeouts >= 1
    /\ pc = "TransportError"

\* C3 (as claimed): a 422 response always raises SerpProAPIError with status
\* 422; a structured body gives its error_message as the message and its
\* invalid_data in the error model; an unparsable body (not JSON, or not a
\* GlobalErrorModel) gives the default message, or the body's error_message
\* when one can be extracted.
C3_Unprocessable422 ==
    (LastResponded /\ last.response[1].status_code = 422) =>
        LET body == last.response[1].body
            structured == body.kind = "object" /\ Validates(GlobalErrorModel, body.obj)
            default == JStr("Unprocessable Content - invalid query")
        IN  /\ RaisedAPIError
            /\ result.error[1].status_code = 422
            /\ IF structured
               THEN /\ result.error[1].error_model # None
                    /\ result.error[1].error_model[1].invalid_data
                          = get(body.obj, "invalid_data", JNull)
                    /\ result.error[1].message
                          = IF Truthy(get(body.obj, "error_message", JNull))
                            THEN body.obj.error_message ELSE default
               ELSE result.error[1].message
                          = IF body.kind = "object"
                            THEN get(body.obj, "error_message", default)
                            ELSE default

\* C4 (as claimed): a raised SerpProAPIError has status code 0 exactly when the
\* final attempt received no HTTP response; a response with a non-200
\* status s gives status code s, whatever its body; invalid input is
\* rejected before any attempt.
C4_StatusDistinguishesOrigin ==
    /\ RaisedAPIError => (result.error[1].status_code = 0 <=> ~LastResponded)
    /\ (RaisedAPIError /\ LastResponded /\ last.response[1].status_code # 200) =>
          result.error[1].status_code = last.response[1].status_code
    /\ pc = "Rejected" => attempts = <<>> /\ result.kind = "ValidationError"

\* C5 (as claimed): once the request record is built, a call either returns
\* or raises SerpProAPIError; no other exception leaves the operation.
C5_OnlyAPIErrorPropagates ==
    pc \in {"Succeeded", "RemoteError", "TransportError", "Escaped"} =>
        result.kind \in {"return", "SerpProAPIError"}

\* C6 (as claimed): the payload of a record operation has a key exactly
\* for the fields the caller set.
C6_PayloadHoldsOnlySetFields ==
    (call.op \in RecordOperations /\ pc = "Sending") =>
        DOMAIN request.json[1] = {k \in DOMAIN call.passed : call.passed[k] # JNull}

\* C6 (amended): the payload holds exactly the fields whose value is not
\* None: a field the caller passed with a value carries that value, a field
\* passed as None or an Optional field left unset is absent, and device,
\* task_type, syntax and grouping are always present, with their declared
\* default when the caller left them unset.
C6_PayloadHoldsNonNoneFields ==
    (call.op \in RecordOperations /\ pc = "Sending") =>
        LET payload == request.json[1]
            passed == call.passed
            defaults == [device |-> "All", task_type |-> "Regular",
                         syntax |-> "Ws", grouping |-> "Month"]
            always == CASE call.op = "wordstat_frequency" -> {"device", "task_type", "syntax"}
                        [] call.op = "wordstat_deep" -> {"device", "task_type"}
                        [] call.op = "wordstat_history" -> {"device", "grouping"}
                        [] call.op = "finance_statistics" -> {}
        IN  /\ \A k \in DOMAIN passed :
                 /\ k \in DOMAIN payload <=> passed[k] # JNull
                 /\ k \in DOMAIN payload => payload[k] = passed[k]
            /\ \A k \in DOMAIN payload \ DOMAIN passed :
                 k \in always /\ payload[k] = JStr(defaults[k])
            /\ always \subseteq DOMAIN payload
            /\ \A k \in DOMAIN payload : payload[k].t # "null"

C6_Witness ==
    /\ call.op = "wordstat_frequency"
    /\ pc = "Sending"
    /\ DOMAIN call.passed = {"query"}
    /\ request.json[1].device = JStr("All")
    /\ "region" \notin DOMAIN request.json[1]

\* C7: wordstat_history with a query of length 0 or above 3000 fails with a
\* validation error and no HTTP attempt; with a query of length 1 to 3000
\* the request is built and every attempt is the POST to
\* /api/v1/wordstat/history.
C7_HistoryQueryLength ==
    call.op = "wordstat_history" =>
        LET n == StrLen(call.passed.query) IN
        IF n = 0 \/ n > 3000
        THEN /\ pc = "Rejected"
             /\ result.kind = "ValidationError"
             /\ attempts = <<>>
        ELSE /\ pc # "Rejected"
             /\ request.method = "POST"
             /\ request.url = client.base_url \o "/api/v1/wordstat/history"
             /\ request.json[1].query = call.passed.query
             /\ \A i \in 1..Len(attempts) : attempts[i] = request

C7_Witness ==
    /\ call.op = "wordstat_history"
    /\ StrLen(call.passed.query) = 3000
    /\ Len(attempts) >= 1
    /\ attempts[1].url = "https://moab-apis.ru/api/v1/wordstat/history"

\* C8 (as claimed): a response with a status s other than 200 and 422 whose
\* body carries no error_message field raises SerpProAPIError(s, "HTTP s");
\* a body with a non-empty error_message gives that value as the message.
C8_DefaultMessageIsHttpStatus ==
    (LastResponded /\ last.response[1].status_code \notin {200, 422}) =>
        LET s == last.response[1].status_code
            body == last.response[1].body
            carries == body.kind = "object" /\ "error_message" \in DOMAIN body.obj
        IN  /\ ~carries =>
                 /\ RaisedAPIError
                 /\ result.error[1].status_code = s
                 /\ result.error[1].message = JStr("HTTP " \o ToString(s))
            /\ (carries /\ Truthy(body.obj.error_message)) =>
                 /\ RaisedAPIError
                 /\ result.error[1].status_code = s
                 /\ result.error[1].message = body.obj.error_message

\* C9 (as claimed): a 200 response to a region operation whose body is a
\* JSON array of length k returns exactly k records, the i-th built from the
\* i-th element alone; the empty array returns the empty sequence and raises
\* no error.
C9_RegionListInOrder ==
    LET body == last.response[1].body
    IN  (/\ call.op \in RegionOperations
         /\ LastResponded
         /\ last.response[1].status_code = HTTP_OK
         /\ body.kind = "array") =>
            /\ pc = "Succeeded"
            /\ result.kind = "return"
            /\ Len(result.value) = Len(body.arr)
            /\ \A i \in 1..Len(body.arr) :
                  result.value[i] = [name |-> get(body.arr[i].obj, "name", JNull),
                                     code |-> get(body.arr[i].obj, "code", JNull)]

\* C10 (as claimed): the call stays in the loop while attempts time out, and
\* the first attempt with another outcome ends it in one of Succeeded,
\* RemoteError, TransportError.
C10_EndsInTerminalState ==
    /\ LastTimedOut => pc = "Sending"
    /\ (LastResponded \/ LastFailed) => pc \in Terminal

\* C11 (as claimed): an HTTP response ends the call on the attempt that
\* received it: status 200 returns the decoded body and every other status
\* (408 and 504 included) raises a remote error carrying that status, with
\* no retry; a call that ended is in one of Succeeded, RemoteError,
\* TransportError; after it no further attempt is made, and no step changes
\* the client's api_key, base_url or verify_ssl.
C11_ResponseEndsCall ==
    /\ [](LastResponded =>
            /\ Len(attempts) = timeouts + 1
            /\ IF last.response[1].status_code = 200
               THEN pc = "Succeeded"
               ELSE /\ pc = "RemoteError"
                    /\ RaisedAPIError
                    /\ result.error[1].status_code = last.response[1].status_code)
    /\ [](pc \notin {"Idle", "Sending", "Rejected"} => pc \in Terminal)
    /\ [][/\ pc \in Ended => attempts' \in {attempts, <<>>}
          /\ client'.api_key = client.api_key
          /\ client'.base_url = client.base_url
          /\ client'.verify_ssl = client.verify_ssl]_vars

====
